---- MODULE Spec2Model ----
(***************************************************************************)
(* Model of sol3.py: Gaussian / Laplacian image pyramids, reconstruction   *)
(* from a Laplacian pyramid and pyramid blending.                          *)
(*                                                                         *)
(* An image is a record [h, w, den, px]: an h x w array whose sample at    *)
(* (i, j) is the rational px[i][j] / den (exact arithmetic in place of     *)
(* float64).  A filter row is a record [n, c, den]: the 1 x n array whose  *)
(* k-th weight is c[k] / den.                                              *)
(***************************************************************************)
EXTENDS Integers, Sequences, FiniteSets, TLC

(* ------------------------------ bounds --------------------------------- *)

\* max_levels is drawn from 0..MaxLevels
MaxLevels == 3
\* filter sizes are drawn from 0..MaxFilterSize
MaxFilterSize == 3
\* input samples are k / MaxVal for k in 0..MaxVal
MaxVal == 4
\* input heights and widths around the size threshold:
\* MIN_IMG_SIZE - 1 .. MIN_IMG_SIZE + DimSpread
DimSpread == 2

(* --------------------------- program constants ------------------------- *)

MIN_IMG_SIZE == 16

(* ------------------------------ arithmetic ----------------------------- *)

RECURSIVE GCD(_, _)
GCD(a, b) == IF b = 0 THEN a ELSE GCD(b, a % b)

LCM(a, b) == (a \div GCD(a, b)) * b

\* numpy broadcasting of two 2-D shapes: equal, or one of them is 1
Broadcastable(a, b) ==
    /\ a.h = b.h \/ a.h = 1 \/ b.h = 1
    /\ a.w = b.w \/ a.w = 1 \/ b.w = 1

BcH(a, b) == IF a.h = 1 THEN b.h ELSE a.h
BcW(a, b) == IF a.w = 1 THEN b.w ELSE a.w

\* numerator of a at (i, j) of the broadcast result, over the denominator d
BcAt(a, i, j, d) ==
    a.px[IF a.h = 1 THEN 0 ELSE i][IF a.w = 1 THEN 0 ELSE j] * (d \div a.den)

\* a + b, elementwise
Add(a, b) ==
    LET d == LCM(a.den, b.den) IN
    [h |-> BcH(a, b), w |-> BcW(a, b), den |-> d,
     px |-> [i \in 0..BcH(a, b) - 1 |-> [j \in 0..BcW(a, b) - 1 |->
               BcAt(a, i, j, d) + BcAt(b, i, j, d)]]]

\* a - b, elementwise
Sub(a, b) ==
    LET d == LCM(a.den, b.den) IN
    [h |-> BcH(a, b), w |-> BcW(a, b), den |-> d,
     px |-> [i \in 0..BcH(a, b) - 1 |-> [j \in 0..BcW(a, b) - 1 |->
               BcAt(a, i, j, d) - BcAt(b, i, j, d)]]]

\* a * b, elementwise
Mul(a, b) ==
    [h |-> BcH(a, b), w |-> BcW(a, b), den |-> a.den * b.den,
     px |-> [i \in 0..BcH(a, b) - 1 |-> [j \in 0..BcW(a, b) - 1 |->
               BcAt(a, i, j, a.den) * BcAt(b, i, j, b.den)]]]

\* im * c for an integer scalar c
Scale(im, c) ==
    [h |-> im.h, w |-> im.w, den |-> im.den,
     px |-> [i \in 0..im.h - 1 |-> [j \in 0..im.w - 1 |-> im.px[i][j] * c]]]

\* im + c for an integer scalar c
AddScalar(im, c) ==
    [h |-> im.h, w |-> im.w, den |-> im.den,
     px |-> [i \in 0..im.h - 1 |-> [j \in 0..im.w - 1 |-> im.px[i][j] + c * im.den]]]

\* np.clip(im, 0, 1)
Clip(im) ==
    [h |-> im.h, w |-> im.w, den |-> im.den,
     px |-> [i \in 0..im.h - 1 |-> [j \in 0..im.w - 1 |->
               IF im.px[i][j] < 0 THEN 0
               ELSE IF im.px[i][j] > im.den THEN im.den ELSE im.px[i][j]]]]

\* mask.astype(np.float64): False -> 0.0, True -> 1.0
AsFloat(mask) ==
    [h |-> mask.h, w |-> mask.w, den |-> 1,
     px |-> [i \in 0..mask.h - 1 |-> [j \in 0..mask.w - 1 |->
               IF mask.px[i][j] THEN 1 ELSE 0]]]

\* equality of two images as arrays of rationals
ImEq(a, b) ==
    /\ a.h = b.h
    /\ a.w = b.w
    /\ \A i \in 0..a.h - 1 : \A j \in 0..a.w - 1 :
          a.px[i][j] * b.den = b.px[i][j] * a.den

Shape(im) == <<im.h, im.w>>

(* ------------------------------ convolution ---------------------------- *)

\* scipy.ndimage mode='reflect': (d c b a | a b c d | d c b a)
Reflect(i, n) ==
    LET m == i % (2 * n) IN IF m < n THEN m ELSE 2 * n - 1 - m

\* scipy.ndimage.convolve(im, gain * blur_filter): weights of shape (1, n),
\* out[i][j] = sum_k w[k] * im[i][j - k + n div 2]
ConvolveRows(im, blur_filter, gain) ==
    [h |-> im.h, w |-> im.w, den |-> im.den * blur_filter.den,
     px |-> [i \in 0..im.h - 1 |-> [j \in 0..im.w - 1 |->
        LET S[k \in 0..blur_filter.n] ==
              IF k = 0 THEN 0
              ELSE S[k - 1] + gain * blur_filter.c[k - 1]
                     * im.px[i][Reflect(j - (k - 1) + (blur_filter.n \div 2), im.w)]
        IN S[blur_filter.n]]]]

\* scipy.ndimage.convolve(im, gain * blur_filter.T): weights of shape (n, 1)
ConvolveCols(im, blur_filter, gain) ==
    [h |-> im.h, w |-> im.w, den |-> im.den * blur_filter.den,
     px |-> [i \in 0..im.h - 1 |-> [j \in 0..im.w - 1 |->
        LET S[k \in 0..blur_filter.n] ==
              IF k = 0 THEN 0
              ELSE S[k - 1] + gain * blur_filter.c[k - 1]
                     * im.px[Reflect(i - (k - 1) + (blur_filter.n \div 2), im.h)][j]
        IN S[blur_filter.n]]]]

\* the slice [::2, ::2]
SubsampleOdd(im) ==
    [h |-> im.h \div 2, w |-> im.w \div 2, den |-> im.den,
     px |-> [i \in 0..(im.h \div 2) - 1 |-> [j \in 0..(im.w \div 2) - 1 |->
               im.px[2 * i + 1][2 * j + 1]]]]

Subsample(im) ==
    [h |-> (im.h + 1) \div 2, w |-> (im.w + 1) \div 2, den |-> im.den,
     px |-> [i \in 0..((im.h + 1) \div 2) - 1 |-> [j \in 0..((im.w + 1) \div 2) - 1 |->
               im.px[2 * i][2 * j]]]]

Reduce(im, blur_filter) ==
    Subsample(ConvolveCols(ConvolveRows(im, blur_filter, 1), blur_filter, 1))

\* np.zeros((2h, 2w)); expanded_image[::2, ::2] = im
ZeroInterleave(im) ==
    [h |-> 2 * im.h, w |-> 2 * im.w, den |-> im.den,
     px |-> [i \in 0..2 * im.h - 1 |-> [j \in 0..2 * im.w - 1 |->
               IF i % 2 = 0 /\ j % 2 = 0 THEN im.px[i \div 2][j \div 2] ELSE 0]]]

Expand(im, blur_filter) ==
    ConvolveCols(ConvolveRows(ZeroInterleave(im), blur_filter, 2), blur_filter, 2)

(* ------------------------------ filter row ----------------------------- *)

RECURSIVE SumTo(_, _)
SumTo(c, n) == IF n = 0 THEN 0 ELSE c[n - 1] + SumTo(c, n - 1)

\* scipy.signal.convolve(filter_row, [1, 1]) (full convolution)
ConvolveBase(row) ==
    [n |-> row.n + 1,
     c |-> [k \in 0..row.n |-> (IF k < row.n THEN row.c[k] ELSE 0)
                              + (IF k > 0 THEN row.c[k - 1] ELSE 0)]]

\* for i in range(iters): filter_row = convolve1d(filter_row, base_row)
RECURSIVE FilterRowLoop(_, _)
FilterRowLoop(row, iters) ==
    IF iters <= 0 THEN row ELSE FilterRowLoop(ConvolveBase(row), iters - 1)

GetFilterRow(filter_size) ==
    LET filter_row == FilterRowLoop([n |-> 1, c |-> [k \in 0..0 |-> 1]], filter_size - 1)
    IN  [n |-> filter_row.n, c |-> filter_row.c,
         den |-> SumTo(filter_row.c, filter_row.n)]

(* ------------------------------- inputs -------------------------------- *)

\* heights and widths: around the threshold, twice the threshold (halved once
\* to the threshold), and two sizes that can be halved twice
Dims ==
    ((MIN_IMG_SIZE - 1)..(MIN_IMG_SIZE + DimSpread))
        \cup {2 * MIN_IMG_SIZE, 2 * (MIN_IMG_SIZE + 1), 2 * (MIN_IMG_SIZE + 2)}

\* heights of the images given to pyramid_blending (at the threshold, odd,
\* even), and their widths: one more even width, for inputs that are not
\* square and are reduced once
BlendDims == {MIN_IMG_SIZE, MIN_IMG_SIZE + 1, MIN_IMG_SIZE + 2}
BlendWidths == BlendDims \cup {MIN_IMG_SIZE + 4}

LevelArgs == 0..MaxLevels
FilterArgs == 0..MaxFilterSize

\* two images with samples in [0, 1]
ImageA(h, w) ==
    [h |-> h, w |-> w, den |-> MaxVal,
     px |-> [i \in 0..h - 1 |-> [j \in 0..w - 1 |-> (i + 2 * j * j) % (MaxVal + 1)]]]

ImageB(h, w) ==
    [h |-> h, w |-> w, den |-> MaxVal,
     px |-> [i \in 0..h - 1 |-> [j \in 0..w - 1 |-> (3 * i * j + j + 1) % (MaxVal + 1)]]]

\* boolean masks: all True, all False, True on the left half
MaskKinds == {"ones", "zeros", "left"}

BoolMask(h, w, kind) ==
    [h |-> h, w |-> w,
     px |-> [i \in 0..h - 1 |-> [j \in 0..w - 1 |->
               CASE kind = "ones" -> TRUE
                 [] kind = "zeros" -> FALSE
                 [] OTHER -> 2 * j < w]]]

\* [1] * n
Ones(n) == [k \in 1..(IF n < 0 THEN 0 ELSE n) |-> 1]

NoImage == [h |-> 0, w |-> 0, den |-> 1, px |-> <<>>]
NoFilter == [n |-> 0, c |-> <<>>, den |-> 1]
NoMask == [h |-> 0, w |-> 0, px |-> <<>>]
None == [tag |-> "none"]

(* ------------------------------- state --------------------------------- *)

VARIABLES
    call,   \* the top-level call in progress: function name and arguments
    pc,     \* position of the innermost active function
    ctl,    \* return positions of the active callers, innermost first
    gp,     \* locals of build_gaussian_pyramid
    lp,     \* locals of build_laplacian_pyramid
    pb,     \* locals of pyramid_blending
    li,     \* locals of laplacian_to_image; li.frames: active _get_gauss calls
    ret,    \* value returned by the last completed call
    exc     \* the exception raised, "none" if none

vars == <<call, pc, ctl, gp, lp, pb, li, ret, exc>>

NoGp == [im |-> NoImage, max_levels |-> 0, filter_size |-> 0,
         pyr |-> <<>>, filter_vec |-> NoFilter, i |-> 0]
NoLp == [gauss_pyr |-> <<>>, filter_vec |-> NoFilter, lap_pyr |-> <<>>, i |-> 0]
NoPb == [l1 |-> <<>>, l2 |-> <<>>, fil |-> NoFilter, gm |-> <<>>,
         out_lap |-> <<>>, coeff |-> <<>>]
NoLi == [lpyr |-> <<>>, filter_vec |-> NoFilter, coeff |-> <<>>,
         n |-> 0, frames |-> <<>>]

NoCall == [fn |-> "none", im1 |-> NoImage, im2 |-> NoImage, mask |-> NoMask,
           max_levels |-> 0, filter_size_im |-> 0, filter_size_mask |-> 0,
           lpyr |-> <<>>, filter_vec |-> NoFilter, coeff |-> <<>>]

GaussCalls ==
    {[NoCall EXCEPT !.fn = "build_gaussian_pyramid", !.im1 = ImageA(h, w),
                    !.max_levels = ml, !.filter_size_im = fs] :
        h \in Dims, w \in Dims, ml \in LevelArgs, fs \in FilterArgs}

LapCalls ==
    {[NoCall EXCEPT !.fn = "build_laplacian_pyramid", !.im1 = ImageB(h, w),
                    !.max_levels = ml, !.filter_size_im = fs] :
        h \in Dims, w \in Dims, ml \in LevelArgs, fs \in FilterArgs}

BlendCalls ==
    {[NoCall EXCEPT !.fn = "pyramid_blending", !.im1 = ImageA(h, w),
                    !.im2 = ImageB(h, w), !.mask = BoolMask(h, w, kind),
                    !.max_levels = ml, !.filter_size_im = fsi,
                    !.filter_size_mask = fsm] :
        h \in BlendDims, w \in BlendWidths, kind \in MaskKinds,
        ml \in LevelArgs, fsi \in FilterArgs, fsm \in FilterArgs}

Init ==
    /\ call \in GaussCalls \cup LapCalls \cup BlendCalls
    /\ pc = "start"
    /\ ctl = <<>>
    /\ gp = NoGp
    /\ lp = NoLp
    /\ pb = NoPb
    /\ li = NoLi
    /\ ret = None
    /\ exc = "none"

(* ----------------------- build_gaussian_pyramid ------------------------ *)

\* pyr = [im]; filter_vec = _get_filer_row(filter_size)
GaussFrame(im, max_levels, filter_size) ==
    [im |-> im, max_levels |-> max_levels, filter_size |-> filter_size,
     pyr |-> <<im>>, filter_vec |-> GetFilterRow(filter_size), i |-> 0]

\* the break condition on the last level
TooSmallStrict(im) == im.h < MIN_IMG_SIZE \/ im.w < MIN_IMG_SIZE

TooSmall(im) == im.h <= MIN_IMG_SIZE \/ im.w <= MIN_IMG_SIZE

\* range(max_levels - 1) has a next value and the break is not taken
GaussContinues(g) ==
    /\ g.i < g.max_levels - 1
    /\ ~TooSmall(g.pyr[Len(g.pyr)])

\* one iteration of the loop: pyr.append(reduce(pyr[-1], filter_vec))
GaussAppend ==
    /\ pc = "gauss_loop"
    /\ GaussContinues(gp)
    /\ gp' = [gp EXCEPT !.pyr = Append(@, Reduce(gp.pyr[Len(gp.pyr)], gp.filter_vec)),
                        !.i = @ + 1]
    /\ UNCHANGED <<call, pc, ctl, lp, pb, li, ret, exc>>

\* the loop ends (range exhausted or break): return pyr, filter_vec
GaussReturn ==
    /\ pc = "gauss_loop"
    /\ ~GaussContinues(gp)
    /\ ret' = [tag |-> "pyr", by |-> "build_gaussian_pyramid",
               pyr |-> gp.pyr, filter_vec |-> gp.filter_vec]
    /\ pc' = Head(ctl)
    /\ ctl' = Tail(ctl)
    /\ UNCHANGED <<call, gp, lp, pb, li, exc>>

(* ----------------------- build_laplacian_pyramid ----------------------- *)

\* the level with the expansion blurred by blur_filter instead of 2 * blur_filter
LaplacianLevelUnitGain(g, gnext, filter_vec) ==
    Sub(g, ConvolveCols(ConvolveRows(ZeroInterleave(gnext), filter_vec, 1), filter_vec, 1))

\* gauss_pyr[i] - expand(gauss_pyr[i + 1], filter_vec)
LaplacianLevel(g, gnext, filter_vec) == Sub(g, Expand(gnext, filter_vec))

\* gauss_pyr, filter_vec = build_gaussian_pyramid(...) has returned
LapGaussReturned ==
    /\ pc = "lap_gauss_ret"
    /\ lp' = [gauss_pyr |-> ret.pyr, filter_vec |-> ret.filter_vec,
              lap_pyr |-> <<>>, i |-> 0]
    /\ pc' = "lap_loop"
    /\ UNCHANGED <<call, ctl, gp, pb, li, ret, exc>>

\* one element of the list comprehension; the subtraction raises ValueError
\* when the two shapes cannot be broadcast
LapLevel ==
    /\ pc = "lap_loop"
    /\ lp.i < Len(lp.gauss_pyr) - 1
    /\ LET g == lp.gauss_pyr[lp.i + 1]
           e == Expand(lp.gauss_pyr[lp.i + 2], lp.filter_vec)
       IN  IF Broadcastable(g, e)
           THEN /\ lp' = [lp EXCEPT
                            !.lap_pyr = Append(@, LaplacianLevel(g, lp.gauss_pyr[lp.i + 2],
                                                                 lp.filter_vec)),
                            !.i = @ + 1]
                /\ UNCHANGED <<pc, exc, ctl, ret>>
           ELSE /\ exc' = "ValueError"
                /\ pc' = "raised"
                /\ ctl' = <<>>
                /\ ret' = None
                /\ UNCHANGED lp
    /\ UNCHANGED <<call, gp, pb, li>>

\* lap_pyr.append(gauss_pyr[-1]); return lap_pyr, filter_vec
LapReturn ==
    /\ pc = "lap_loop"
    /\ lp.i = Len(lp.gauss_pyr) - 1
    /\ lp' = [lp EXCEPT !.lap_pyr = Append(@, lp.gauss_pyr[Len(lp.gauss_pyr)])]
    /\ ret' = [tag |-> "pyr", by |-> "build_laplacian_pyramid",
               pyr |-> lp'.lap_pyr,
               filter_vec |-> lp.filter_vec]
    /\ pc' = Head(ctl)
    /\ ctl' = Tail(ctl)
    /\ UNCHANGED <<call, gp, pb, li, exc>>

(* -------------------------- laplacian_to_image ------------------------- *)

\* laplacian_to_image is entered: _get_gauss() is about to be called with n = 0
ImageFrame(lpyr, filter_vec, coeff) ==
    [lpyr |-> lpyr, filter_vec |-> filter_vec, coeff |-> coeff,
     n |-> 0, frames |-> <<>>]

\* (lpyr[n] * coeff[n]) + expand(<value of _get_gauss(n + 1)>, filter_vec)
Accumulate(part, sub, filter_vec) == Add(part, Expand(sub, filter_vec))

\* _get_gauss(li.n) is entered: the invocation becomes active, its product not
\* yet evaluated
GetGaussCall ==
    /\ pc = "get_gauss_call"
    /\ li' = [li EXCEPT !.frames = <<[n |-> li.n, val |-> NoImage]>> \o @]
    /\ pc' = "get_gauss_body"
    /\ UNCHANGED <<call, ctl, gp, lp, pb, ret, exc>>

\* the active _get_gauss(n) evaluates lpyr[n] * coeff[n] first (IndexError when
\* n is not an index of lpyr or of coeff, raised with this invocation active);
\* at the last level the product is the value returned, otherwise
\* _get_gauss(n + 1) is called
GetGaussBody ==
    /\ pc = "get_gauss_body"
    /\ LET n == Head(li.frames).n IN
       IF n >= Len(li.lpyr) \/ n >= Len(li.coeff)
       THEN /\ exc' = "IndexError"
            /\ pc' = "raised"
            /\ ctl' = <<>>
            /\ UNCHANGED li
       ELSE /\ li' = [li EXCEPT
                        !.frames = <<[n |-> n,
                                      val |-> Scale(li.lpyr[n + 1], li.coeff[n + 1])]>>
                                   \o Tail(@),
                        !.n = n + 1]
            /\ pc' = IF n = Len(li.lpyr) - 1 THEN "get_gauss_return"
                                            ELSE "get_gauss_call"
            /\ UNCHANGED <<exc, ctl>>
    /\ UNCHANGED <<call, gp, lp, pb, ret>>

\* the innermost _get_gauss returns its value: to the _get_gauss that called it,
\* which adds the expansion to its own product (ValueError when the shapes
\* cannot be broadcast, raised in the caller, the invocation that returned no
\* longer active), or, from _get_gauss(0), to the caller of laplacian_to_image
GetGaussReturn ==
    /\ pc = "get_gauss_return"
    /\ LET top == Head(li.frames)
           rest == Tail(li.frames)
       IN  IF rest = <<>>
           THEN /\ ret' = [tag |-> "image", by |-> "laplacian_to_image", im |-> top.val]
                /\ li' = [li EXCEPT !.frames = rest]
                /\ pc' = Head(ctl)
                /\ ctl' = Tail(ctl)
                /\ UNCHANGED exc
           ELSE IF Broadcastable(Head(rest).val, Expand(top.val, li.filter_vec))
           THEN /\ li' = [li EXCEPT
                            !.frames = <<[n |-> Head(rest).n,
                                          val |-> Accumulate(Head(rest).val, top.val,
                                                             li.filter_vec)]>>
                                       \o Tail(rest)]
                /\ UNCHANGED <<pc, ctl, ret, exc>>
           ELSE /\ exc' = "ValueError"
                /\ pc' = "raised"
                /\ ctl' = <<>>
                /\ li' = [li EXCEPT !.frames = rest]
                /\ UNCHANGED ret
    /\ UNCHANGED <<call, gp, lp, pb>>

(* --------------------------- pyramid_blending -------------------------- *)

\* gm[i] * l1[i] + ((-1 * gm[i]) + 1) * l2[i]
BlendLevel(g, a, b) == Add(Mul(g, a), Mul(AddScalar(Scale(g, -1), 1), b))

\* the coefficient list handed to laplacian_to_image
BlendCoeff(max_levels, out_lap) == Ones(max_levels)

\* the mask's pyramid built with max_levels and filter_size_mask interchanged
MaskPyramidSwapped(c) ==
    GaussFrame(AsFloat(c.mask), c.filter_size_mask, c.max_levels)

\* build_gaussian_pyramid(mask.astype(np.float64), max_levels, filter_size_mask)
MaskPyramid(c) ==
    GaussFrame(AsFloat(c.mask), c.max_levels, c.filter_size_mask)

\* build_laplacian_pyramid(im1, ...)[0] has returned; call it for im2
BlendFirstReturned ==
    /\ pc = "pb_l1_ret"
    /\ pb' = [pb EXCEPT !.l1 = ret.pyr]
    /\ gp' = GaussFrame(call.im2, call.max_levels, call.filter_size_im)
    /\ pc' = "gauss_loop"
    /\ ctl' = <<"lap_gauss_ret", "pb_l2_ret">> \o ctl
    /\ UNCHANGED <<call, lp, li, ret, exc>>

\* l2, fil = build_laplacian_pyramid(im2, ...) has returned; call
\* build_gaussian_pyramid(mask.astype(np.float64), ...)
BlendSecondReturned ==
    /\ pc = "pb_l2_ret"
    /\ pb' = [pb EXCEPT !.l2 = ret.pyr, !.fil = ret.filter_vec]
    /\ gp' = MaskPyramid(call)
    /\ pc' = "gauss_loop"
    /\ ctl' = <<"pb_gm_ret">> \o ctl
    /\ UNCHANGED <<call, lp, li, ret, exc>>

\* what evaluating element i of the out_lap comprehension raises, in the order
\* the expression gm[i] * l1[i] + ((-1 * gm[i]) + 1) * l2[i] is evaluated:
\* gm[i] (IndexError), the first product (ValueError when the shapes cannot be
\* broadcast), l2[i] (IndexError), the second product and the sum (ValueError);
\* "none" when the element is produced.  l1[i] exists: i ranges over len(l1).
BlendLevelError(gm, l1, l2, i) ==
    IF i > Len(gm) THEN "IndexError"
    ELSE IF ~Broadcastable(gm[i], l1[i]) THEN "ValueError"
    ELSE IF i > Len(l2) THEN "IndexError"
    ELSE IF ~Broadcastable(gm[i], l2[i]) THEN "ValueError"
    ELSE IF ~Broadcastable(Mul(gm[i], l1[i]), Mul(gm[i], l2[i])) THEN "ValueError"
    ELSE "none"

\* gm has returned: the out_lap comprehension over range(len(l1)), which stops
\* at the first element that raises, then the call
\* laplacian_to_image(out_lap, fil, [1] * max_levels)
BlendLevels ==
    /\ pc = "pb_gm_ret"
    /\ LET gm == ret.pyr
           n == Len(pb.l1)
           bad == {i \in 1..n : BlendLevelError(gm, pb.l1, pb.l2, i) # "none"}
       IN  IF bad # {}
           THEN /\ exc' = BlendLevelError(gm, pb.l1, pb.l2,
                                          CHOOSE i \in bad : \A k \in bad : i <= k)
                /\ pc' = "raised"
                /\ ctl' = <<>>
                /\ pb' = [pb EXCEPT !.gm = gm]
                /\ UNCHANGED li
           ELSE LET out_lap == [i \in 1..n |-> BlendLevel(gm[i], pb.l1[i], pb.l2[i])]
                    coeff == BlendCoeff(call.max_levels, out_lap)
                IN  /\ pb' = [pb EXCEPT !.gm = gm, !.out_lap = out_lap,
                                        !.coeff = coeff]
                    /\ li' = ImageFrame(out_lap, pb.fil, coeff)
                    /\ pc' = "get_gauss_call"
                    /\ ctl' = <<"pb_clip">> \o ctl
                    /\ UNCHANGED exc
    /\ UNCHANGED <<call, gp, lp, ret>>

\* return np.clip(<reconstructed image>, 0, 1)
BlendClip ==
    /\ pc = "pb_clip"
    /\ ret' = [tag |-> "image", by |-> "pyramid_blending", im |-> Clip(ret.im)]
    /\ pc' = Head(ctl)
    /\ ctl' = Tail(ctl)
    /\ UNCHANGED <<call, gp, lp, pb, li, exc>>

(* ----------------------------- top level ------------------------------- *)

\* the caller invokes build_gaussian_pyramid(im, max_levels, filter_size)
CallGaussian ==
    /\ pc = "start"
    /\ call.fn = "build_gaussian_pyramid"
    /\ gp' = GaussFrame(call.im1, call.max_levels, call.filter_size_im)
    /\ pc' = "gauss_loop"
    /\ ctl' = <<"done">>
    /\ UNCHANGED <<call, lp, pb, li, ret, exc>>

\* the caller invokes build_laplacian_pyramid(im, max_levels, filter_size),
\* which first calls build_gaussian_pyramid with the same arguments
CallLaplacian ==
    /\ pc = "start"
    /\ call.fn = "build_laplacian_pyramid"
    /\ gp' = GaussFrame(call.im1, call.max_levels, call.filter_size_im)
    /\ pc' = "gauss_loop"
    /\ ctl' = <<"lap_gauss_ret", "done">>
    /\ UNCHANGED <<call, lp, pb, li, ret, exc>>

\* the caller passes the pyramid and filter it got from build_laplacian_pyramid
\* to laplacian_to_image, with a coefficient list of some length
CallLaplacianToImage ==
    /\ pc = "done"
    /\ call.fn = "build_laplacian_pyramid"
    /\ \E clen \in 0..MaxLevels + 1 :
          /\ call' = [call EXCEPT !.fn = "laplacian_to_image", !.lpyr = ret.pyr,
                                  !.filter_vec = ret.filter_vec,
                                  !.coeff = Ones(clen)]
          /\ li' = ImageFrame(ret.pyr, ret.filter_vec, Ones(clen))
    /\ pc' = "get_gauss_call"
    /\ ctl' = <<"done">>
    /\ ret' = None
    /\ UNCHANGED <<gp, lp, pb, exc>>

\* the caller invokes pyramid_blending, whose first step is
\* build_laplacian_pyramid(im1, max_levels, filter_size_im)
CallBlending ==
    /\ pc = "start"
    /\ call.fn = "pyramid_blending"
    /\ gp' = GaussFrame(call.im1, call.max_levels, call.filter_size_im)
    /\ pc' = "gauss_loop"
    /\ ctl' = <<"lap_gauss_ret", "pb_l1_ret", "done">>
    /\ UNCHANGED <<call, lp, pb, li, ret, exc>>

Next ==
    \/ CallGaussian
    \/ CallLaplacian
    \/ CallLaplacianToImage
    \/ CallBlending
    \/ GaussAppend
    \/ GaussReturn
    \/ LapGaussReturned
    \/ LapLevel
    \/ LapReturn
    \/ GetGaussCall
    \/ GetGaussBody
    \/ GetGaussReturn
    \/ BlendFirstReturned
    \/ BlendSecondReturned
    \/ BlendLevels
    \/ BlendClip

Spec == Init /\ [][Next]_vars

(* ------------------------------- claims ------------------------------- *)

Finished == pc \in {"done", "raised"}

\* a filter size the documentation allows: odd and at least 1
OddFilter(fs) == fs >= 1 /\ fs % 2 = 1

\* the top-left h x w submatrix
Crop(im, h, w) ==
    [h |-> h, w |-> w, den |-> im.den,
     px |-> [i \in 0..h - 1 |-> [j \in 0..w - 1 |-> im.px[i][j]]]]

\* C1: round trip.  When build_laplacian_pyramid(I, L, f) has returned (L >= 1,
\* f odd) and laplacian_to_image is called on its result with [1] * L, the call
\* returns an image equal to I sample by sample, also when the pyramid has
\* fewer than L levels.
RoundTrip ==
    ( /\ call.fn = "laplacian_to_image"
      /\ Finished
      /\ call.max_levels >= 1
      /\ OddFilter(call.filter_size_im)
      /\ call.coeff = Ones(call.max_levels) )
    => ( /\ pc = "done"
         /\ ret.tag = "image"
         /\ ImEq(ret.im, call.im1) )

\* C1 witness: a pyramid that stopped early (2 levels, max_levels = 3) has been
\* reconstructed through one expansion with a 3-tap filter
RoundTripWitness ==
    /\ call.fn = "laplacian_to_image"
    /\ pc = "done"
    /\ call.max_levels = 3
    /\ call.filter_size_im = 3
    /\ call.coeff = Ones(3)
    /\ Len(call.lpyr) = 2
    /\ ret.tag = "image"
    /\ ImEq(ret.im, call.im1)

\* C2: stopping rule.  A pyramid returned by build_gaussian_pyramid with
\* max_levels >= 1 starts with the input, has at most max_levels levels, every
\* level but the last is larger than 16 in both dimensions, and if it has fewer
\* than max_levels levels its last level has height <= 16 or width <= 16.
StoppingRule ==
    ( /\ ret.tag = "pyr"
      /\ ret.by = "build_gaussian_pyramid"
      /\ gp.max_levels >= 1 )
    => ( /\ Len(ret.pyr) >= 1
         /\ ret.pyr[1] = gp.im
         /\ Len(ret.pyr) <= gp.max_levels
         /\ \A i \in 1..Len(ret.pyr) - 1 :
               ret.pyr[i].h > 16 /\ ret.pyr[i].w > 16
         /\ Len(ret.pyr) < gp.max_levels
               => \/ ret.pyr[Len(ret.pyr)].h <= 16
                  \/ ret.pyr[Len(ret.pyr)].w <= 16
         /\ (gp.im.h = 16 /\ gp.im.w = 16) => Len(ret.pyr) = 1
         /\ (gp.im.h = 32 /\ gp.im.w = 32 /\ gp.max_levels = 3)
               => Len(ret.pyr) = 2 )

\* C2 witness: the 32 x 32 image with max_levels = 3 and filter size 3 gave a
\* pyramid of 2 levels
StoppingRuleWitness ==
    /\ ret.tag = "pyr"
    /\ ret.by = "build_gaussian_pyramid"
    /\ gp.im.h = 32
    /\ gp.im.w = 32
    /\ gp.max_levels = 3
    /\ gp.filter_size = 3
    /\ Len(ret.pyr) = 2
    /\ Shape(ret.pyr[2]) = <<16, 16>>

\* C3: in every pyramid returned by build_gaussian_pyramid, level i + 1 has
\* dimensions (ceil(height_i / 2), ceil(width_i / 2)).
HalvedDimensions ==
    (ret.tag = "pyr" /\ ret.by = "build_gaussian_pyramid")
    => \A i \in 1..Len(ret.pyr) - 1 :
          /\ 2 * ret.pyr[i + 1].h \in {ret.pyr[i].h, ret.pyr[i].h + 1}
          /\ 2 * ret.pyr[i + 1].w \in {ret.pyr[i].w, ret.pyr[i].w + 1}

\* C3 witness: two successive reductions, the second one of an odd height
HalvedDimensionsWitness ==
    /\ ret.tag = "pyr"
    /\ ret.by = "build_gaussian_pyramid"
    /\ Len(ret.pyr) = 3
    /\ Shape(ret.pyr[1]) = <<34, 36>>
    /\ Shape(ret.pyr[2]) = <<17, 18>>
    /\ Shape(ret.pyr[3]) = <<9, 9>>

\* C4: build_laplacian_pyramid crops the expansion to the shape of G[i], so for
\* every image (max_levels >= 1, odd filter size) the call raises nothing and
\* returns a pyramid whose level i has the shape of G[i] and equals G[i] minus
\* the cropped expansion of G[i + 1], the last level being the last Gaussian one.
CroppedLaplacian ==
    (call.fn = "build_laplacian_pyramid" /\ call.max_levels >= 1
        /\ OddFilter(call.filter_size_im))
    => /\ exc = "none"
       /\ ret.tag = "pyr" /\ ret.by = "build_laplacian_pyramid"
          => /\ Len(ret.pyr) = Len(lp.gauss_pyr)
             /\ ret.pyr[Len(ret.pyr)] = lp.gauss_pyr[Len(ret.pyr)]
             /\ \A i \in 1..Len(ret.pyr) - 1 :
                   /\ Shape(ret.pyr[i]) = Shape(lp.gauss_pyr[i])
                   /\ ImEq(ret.pyr[i],
                           Sub(lp.gauss_pyr[i],
                               Crop(Expand(lp.gauss_pyr[i + 1], lp.filter_vec),
                                    lp.gauss_pyr[i].h, lp.gauss_pyr[i].w)))

\* C5: mask extremes.  pyramid_blending (max_levels >= 1, odd filter sizes,
\* images with samples in [0, 1]) returns im1 when the mask is 1 everywhere and
\* im2 when it is 0 everywhere.
MaskExtremes ==
    ( /\ call.fn = "pyramid_blending"
      /\ Finished
      /\ call.max_levels >= 1
      /\ OddFilter(call.filter_size_im)
      /\ OddFilter(call.filter_size_mask) )
    => /\ call.mask = BoolMask(call.mask.h, call.mask.w, "ones")
          => pc = "done" /\ ret.tag = "image" /\ ImEq(ret.im, call.im1)
       /\ call.mask = BoolMask(call.mask.h, call.mask.w, "zeros")
          => pc = "done" /\ ret.tag = "image" /\ ImEq(ret.im, call.im2)

\* C6: a pyramid builder called with a filter size that is even or < 1 fails:
\* it ends with an exception and returns no kernel and no pyramid.
InvalidFilterRejected ==
    /\ (ret.tag = "pyr") => OddFilter(gp.filter_size)
    /\ (Finished /\ call.fn # "laplacian_to_image"
          /\ (~OddFilter(call.filter_size_im)
                \/ (call.fn = "pyramid_blending" /\ ~OddFilter(call.filter_size_mask))))
       => pc = "raised"

\* C7: build_gaussian_pyramid and build_laplacian_pyramid called with
\* max_levels < 1 fail: no pyramid, not even a single-level one, is returned.
InvalidLevelsRejected ==
    /\ (ret.tag = "pyr") => gp.max_levels >= 1
    /\ (Finished /\ call.fn \in {"build_gaussian_pyramid", "build_laplacian_pyramid"}
          /\ call.max_levels < 1)
       => pc = "raised"

\* C8: laplacian_to_image fails, returning no image, whenever the coefficient
\* list is shorter or longer than the pyramid; and pyramid_blending calls it
\* with exactly len(out_lap) coefficients.
CoefficientLengthChecked ==
    /\ (call.fn = "laplacian_to_image" /\ Finished
          /\ Len(call.coeff) # Len(call.lpyr))
       => pc = "raised" /\ ret.tag # "image"
    /\ (call.fn = "pyramid_blending" /\ pb.out_lap # <<>>)
       => Len(pb.coeff) = Len(pb.out_lap)

\* C9: in pyramid_blending (max_levels >= 1, odd filter sizes, possibly
\* different), the pyramids have the same length and the same shape at every
\* level: l1 and l2 once both are built, l1, l2 and gm once the three are
\* built; and the per-level blend goes through: it raises nothing and produces
\* one level per level of l1.
BlendPyramidsAligned ==
    ( /\ call.fn = "pyramid_blending"
      /\ call.max_levels >= 1
      /\ OddFilter(call.filter_size_im)
      /\ OddFilter(call.filter_size_mask) )
    => /\ pc = "pb_l2_ret"
          => /\ Len(pb.l1) = Len(ret.pyr)
             /\ \A i \in 1..Len(pb.l1) : Shape(pb.l1[i]) = Shape(ret.pyr[i])
       /\ pc = "pb_gm_ret"
          => /\ Len(pb.l1) = Len(pb.l2)
             /\ Len(pb.l1) = Len(ret.pyr)
             /\ \A i \in 1..Len(pb.l1) :
                   /\ Shape(pb.l1[i]) = Shape(pb.l2[i])
                   /\ Shape(pb.l1[i]) = Shape(ret.pyr[i])
       /\ pb.gm # <<>>
          => /\ exc # "IndexError" \/ pb.out_lap # <<>>
             /\ Len(pb.out_lap) = Len(pb.l1)
             /\ \A i \in 1..Len(pb.l1) : Shape(pb.out_lap[i]) = Shape(pb.l1[i])

\* C9 witness: the three pyramids of an 18 x 20 input are built, with two
\* levels each (18 x 20, 9 x 10) and with different filter sizes for the images
\* and the mask
BlendPyramidsAlignedWitness ==
    /\ call.fn = "pyramid_blending"
    /\ pc = "pb_gm_ret"
    /\ Shape(call.im1) = <<18, 20>>
    /\ call.max_levels = 3
    /\ call.filter_size_im = 3
    /\ call.filter_size_mask = 1
    /\ Len(pb.l1) = 2
    /\ Len(pb.l2) = 2
    /\ Len(ret.pyr) = 2
    /\ Shape(ret.pyr[2]) = <<9, 10>>

\* C10: laplacian_to_image accumulates iteratively: at most one invocation of
\* the reconstruction step is active at any time, whatever the pyramid length.
IterativeReconstruction == Len(li.frames) <= 1

====
